---------------------------- MODULE Spec2Model ----------------------------
(* Process lifecycle of the two entry points of the repository:            *)
(*   src/app/twitter.py  - the standalone scheduler runtime (__main__)     *)
(*   src/app/api.py      - the service runtime (the FastAPI lifespan hook) *)
(*                                                                         *)
(* The scheduler object is APScheduler 3.x (BlockingScheduler in           *)
(* twitter.py).  Its calls are modelled at their call sites with the       *)
(* behaviour of that library: add_job on a scheduler that is not running   *)
(* keeps the job pending, start() sets state RUNNING and runs the main     *)
(* loop on the calling thread, shutdown() raises SchedulerNotRunningError  *)
(* when the state is STOPPED, otherwise sets the state STOPPED and waits   *)
(* for the executor's running jobs (wait=True).  Job bodies run on the     *)
(* executor's worker threads, at most one instance per job.                *)
(*                                                                         *)
(* Python delivers a signal to the main thread between two bytecodes: the  *)
(* handler runs as a new frame on top of whatever the main thread was      *)
(* doing, handlers nest, and an exception leaving a handler propagates     *)
(* into the interrupted frame.                                             *)
EXTENDS Integers, Sequences, FiniteSets

\* ------------------------------------------------------------------ bounds
MaxDeliveries == 2      \* signal deliveries in one execution
MaxFirings    == 2      \* job executions started in one execution
MaxSkips      == 1      \* due firings skipped because of an overlap

\* --------------------------------------------------------------- constants
Signals        == {"SIGINT", "SIGTERM"}
Runtimes       == {"standalone", "service"}
InitDbOutcomes == {"ok", "failed"}
StartOutcomes  == {"ok", "failed"}
JobOutcomes    == {"ok", "error"}
\* values of config.twitter_entrypoint_interval (minutes)
Intervals      == {0, 1, 2}

VARIABLES
    runtime,      \* which entry point this process runs
    interval,     \* config.twitter_entrypoint_interval
    pc,           \* position of the main control flow
    hstack,       \* signal-handler frames on top of the main frame
    handlers,     \* signals whose disposition is signal_handler
    delivered,    \* number of signals delivered so far
    sigArmed,     \* a signal was delivered with both handlers installed
    dbInit,       \* "none" | "ok" | "failed"
    initCalls,    \* number of init_db calls
    jobs,         \* jobs registered with the scheduler
    schedState,   \* scheduler.state: "STOPPED" | "RUNNING"
    startCalls,   \* number of times the scheduler's start was entered
    shutdownLog,  \* one record per scheduler.shutdown() call
    handlerEnds,  \* how each finished handler invocation ended
    due,          \* the interval has elapsed: a firing is due
    inflight,     \* job executions running on the executor
    fired,        \* job executions started
    skipped,      \* due firings skipped (previous one still running)
    failures,     \* job executions that raised
    served,       \* the lifespan has yielded to the server
    exitCode      \* exit status once pc = "done"; -1 while the process lives

vars == << runtime, interval, pc, hstack, handlers, delivered, sigArmed, dbInit,
           initCalls, jobs, schedState, startCalls, shutdownLog, handlerEnds,
           due, inflight, fired, skipped, failures, served, exitCode >>

schedVars == << jobs, schedState, startCalls >>
jobVars   == << due, inflight, fired, skipped, failures >>
sigVars   == << handlers, delivered, sigArmed >>
dbVars    == << dbInit, initCalls >>

Alive == pc # "done"

\* ------------------------------------------------------------- exceptions

\* except (KeyboardInterrupt, SystemExit): pass
Caught(exc) == exc \in {"KeyboardInterrupt", "SystemExit"}

\* main positions inside the try block
TryRegion == {"start", "blocked"}

\* shutdown() calls that were waiting in a frame the exception unwinds
AbortPending(l) ==
    [i \in DOMAIN l |->
        IF l[i].result = "pending" THEN [l[i] EXCEPT !.result = "aborted"]
        ELSE l[i]]

\* status of the interpreter when exc leaves the main module uncaught
UncaughtStatus(exc) == IF exc = "SystemExit" THEN 0 ELSE 1

\* exc is raised in the top frame of the main thread: no handler frame
\* catches anything, the main frame catches inside its try block only.
Raise(exc, l) ==
    /\ handlerEnds' = handlerEnds \o [i \in 1..Len(hstack) |-> exc]
    /\ hstack' = << >>
    /\ shutdownLog' = AbortPending(l)
    /\ IF pc \in TryRegion /\ Caught(exc)
       THEN /\ pc' = "except"
            /\ exitCode' = exitCode
       ELSE /\ pc' = "done"
            /\ exitCode' = UncaughtStatus(exc)

\* -------------------------------------------------------------- scheduler

\* mutant: shutdown() on a stopped scheduler goes ahead instead of raising
ShutdownRaises_Never == FALSE

\* BaseScheduler.shutdown: if self.state == STATE_STOPPED: raise
ShutdownRaises == schedState = "STOPPED"

ShutdownRecord(ctx, res) ==
    [ctx |-> ctx, prior |-> schedState, started |-> startCalls > 0,
     armed |-> handlers = Signals, result |-> res]

\* mutant: shutdown() leaves the scheduler running
StateAfterShutdown_Running == "RUNNING"

\* the state shutdown() leaves the scheduler in
StateAfterShutdown == "STOPPED"

\* the scheduler's main loop processes due jobs: while state != STOPPED
CanFire == schedState = "RUNNING"

\* the thread that runs the scheduler's main loop is in it
LoopRuns ==
    IF runtime = "standalone" THEN pc = "blocked" /\ hstack = << >>
    ELSE Alive

Init ==
    /\ runtime \in Runtimes
    /\ interval \in Intervals
    /\ pc = IF runtime = "standalone" THEN "init_db" ELSE "l_init_db"
    /\ hstack = << >>
    /\ handlers = {}
    /\ delivered = 0
    /\ sigArmed = FALSE
    /\ dbInit = "none"
    /\ initCalls = 0
    /\ jobs = {}
    /\ schedState = "STOPPED"
    /\ startCalls = 0
    /\ shutdownLog = << >>
    /\ handlerEnds = << >>
    /\ due = FALSE
    /\ inflight = 0
    /\ fired = 0
    /\ skipped = 0
    /\ failures = 0
    /\ served = FALSE
    /\ exitCode = -1

\* ------------------------------------------------- standalone: __main__

\* mutant: a failure of init_db is swallowed and startup goes on
MainInitDb_Swallow ==
    /\ runtime = "standalone" /\ pc = "init_db" /\ hstack = << >>
    /\ \E o \in InitDbOutcomes :
        /\ initCalls' = initCalls + 1
        /\ dbInit' = o
    /\ pc' = "add_job"
    /\ UNCHANGED << runtime, interval, hstack, sigVars, schedVars, shutdownLog,
                    handlerEnds, jobVars, served, exitCode >>

\* mutant: init_db is called again after it succeeded
MainInitDb_Twice ==
    /\ runtime = "standalone" /\ pc \in {"init_db", "add_job"}
    /\ hstack = << >> /\ initCalls < 2
    /\ \E o \in InitDbOutcomes :
        /\ initCalls' = initCalls + 1
        /\ dbInit' = o
        /\ IF o = "ok"
           THEN pc' = "add_job" /\ exitCode' = exitCode
           ELSE pc' = "done" /\ exitCode' = 1
    /\ UNCHANGED << runtime, interval, hstack, sigVars, schedVars, shutdownLog,
                    handlerEnds, jobVars, served >>

\* init_db(**config.db): an exception leaves the module uncaught
MainInitDb ==
    /\ runtime = "standalone" /\ pc = "init_db" /\ hstack = << >>
    /\ \E o \in InitDbOutcomes :
        /\ initCalls' = initCalls + 1
        /\ dbInit' = o
        /\ IF o = "ok"
           THEN pc' = "add_job" /\ exitCode' = exitCode
           ELSE pc' = "done" /\ exitCode' = 1
    /\ UNCHANGED << runtime, interval, hstack, sigVars, schedVars, shutdownLog,
                    handlerEnds, jobVars, served >>

\* IntervalTrigger(minutes=m): the interval in seconds, a zero interval
\* becoming one second; no value is rejected
IntervalLength(m) == IF m * 60 = 0 THEN 1 ELSE m * 60

\* scheduler = BlockingScheduler(); scheduler.add_job(run_twitter_agents, ...)
MainAddJob ==
    /\ runtime = "standalone" /\ pc = "add_job" /\ hstack = << >>
    /\ jobs' = jobs \cup {[id |-> "run_twitter_agents",
                           seconds |-> IntervalLength(interval)]}
    /\ pc' = "install_sigint"
    /\ UNCHANGED << runtime, interval, hstack, sigVars, dbVars, schedState, startCalls,
                    shutdownLog, handlerEnds, jobVars, served, exitCode >>

\* mutant: only the SIGINT handler is installed before the try block
MainInstallSigint_Only ==
    /\ runtime = "standalone" /\ pc = "install_sigint" /\ hstack = << >>
    /\ handlers' = handlers \cup {"SIGINT"}
    /\ pc' = "start"
    /\ UNCHANGED << runtime, interval, hstack, delivered, sigArmed, dbVars,
                    schedVars, shutdownLog, handlerEnds, jobVars, served,
                    exitCode >>

\* signal.signal(signal.SIGINT, signal_handler)
MainInstallSigint ==
    /\ runtime = "standalone" /\ pc = "install_sigint" /\ hstack = << >>
    /\ handlers' = handlers \cup {"SIGINT"}
    /\ pc' = "install_sigterm"
    /\ UNCHANGED << runtime, interval, hstack, delivered, sigArmed, dbVars, schedVars,
                    shutdownLog, handlerEnds, jobVars, served, exitCode >>

\* signal.signal(signal.SIGTERM, signal_handler); then the try block
MainInstallSigterm ==
    /\ runtime = "standalone" /\ pc = "install_sigterm" /\ hstack = << >>
    /\ handlers' = handlers \cup {"SIGTERM"}
    /\ pc' = "start"
    /\ UNCHANGED << runtime, interval, hstack, delivered, sigArmed, dbVars, schedVars,
                    shutdownLog, handlerEnds, jobVars, served, exitCode >>

\* scheduler.start(): state RUNNING, then the main loop on this thread
MainStart ==
    /\ runtime = "standalone" /\ pc = "start" /\ hstack = << >>
    /\ schedState' = "RUNNING"
    /\ startCalls' = startCalls + 1
    /\ pc' = "blocked"
    /\ UNCHANGED << runtime, interval, hstack, sigVars, dbVars, jobs, shutdownLog,
                    handlerEnds, jobVars, served, exitCode >>

\* an exception other than those of the except clause leaves start()
StartRaises ==
    /\ runtime = "standalone" /\ pc = "blocked" /\ hstack = << >>
    /\ Raise("Exception", shutdownLog)
    /\ UNCHANGED << runtime, interval, sigVars, dbVars, schedVars, jobVars, served >>

\* except (KeyboardInterrupt, SystemExit): pass  -- the module ends
MainExceptPass ==
    /\ runtime = "standalone" /\ pc = "except" /\ hstack = << >>
    /\ pc' = "done"
    /\ exitCode' = 0
    /\ UNCHANGED << runtime, interval, hstack, sigVars, dbVars, schedVars, shutdownLog,
                    handlerEnds, jobVars, served >>

\* ------------------------------------------------------ signal delivery

Frame(s) == [sig |-> s, pc |-> "h_call"]

\* the OS delivers s: signal_handler if installed, else the default
\* disposition (SIGINT: KeyboardInterrupt in the main thread, SIGTERM: the
\* process is killed)
Deliver(s) ==
    /\ runtime = "standalone" /\ Alive
    /\ delivered < MaxDeliveries
    /\ delivered' = delivered + 1
    /\ sigArmed' = (sigArmed \/ handlers = Signals)
    /\ IF s \in handlers
       THEN /\ hstack' = Append(hstack, Frame(s))
            /\ UNCHANGED << pc, exitCode, shutdownLog, handlerEnds >>
       ELSE IF s = "SIGINT"
       THEN Raise("KeyboardInterrupt", shutdownLog)
       ELSE /\ pc' = "done"
            /\ exitCode' = 143
            /\ hstack' = << >>
            /\ shutdownLog' = AbortPending(shutdownLog)
            /\ UNCHANGED handlerEnds
    /\ UNCHANGED << runtime, interval, handlers, dbVars, schedVars, jobVars, served >>

Top == hstack[Len(hstack)]
SetTop(p) == [hstack EXCEPT ![Len(hstack)] = [@ EXCEPT !.pc = p]]

\* signal_handler: scheduler.shutdown() is called
HandlerShutdown ==
    /\ Alive /\ hstack # << >> /\ Top.pc = "h_call"
    /\ IF ShutdownRaises
       THEN /\ Raise("SchedulerNotRunningError",
                     Append(shutdownLog, ShutdownRecord("handler", "raised")))
            /\ UNCHANGED schedState
       ELSE /\ schedState' = StateAfterShutdown
            /\ shutdownLog' =
                   Append(shutdownLog, ShutdownRecord("handler", "pending"))
            /\ hstack' = SetTop("h_wait")
            /\ UNCHANGED << pc, exitCode, handlerEnds >>
    /\ UNCHANGED << runtime, interval, sigVars, dbVars, jobs, startCalls, jobVars,
                    served >>

\* the innermost pending shutdown() call returns
ReturnPending(l) ==
    LET idx == {i \in DOMAIN l : l[i].result = "pending"}
        last == CHOOSE i \in idx : \A j \in idx : j <= i
    IN  IF idx = {} THEN l ELSE [l EXCEPT ![last].result = "returned"]

\* mutant: shutdown() returns without waiting for the running job
HandlerShutdownReturn_NoWait ==
    /\ Alive /\ hstack # << >> /\ Top.pc = "h_wait"
    /\ shutdownLog' = ReturnPending(shutdownLog)
    /\ hstack' = SetTop("h_exit")
    /\ UNCHANGED << runtime, interval, pc, sigVars, dbVars, schedVars,
                    handlerEnds, jobVars, served, exitCode >>

\* signal_handler: scheduler.shutdown() returns once no job is running
HandlerShutdownReturn ==
    /\ Alive /\ hstack # << >> /\ Top.pc = "h_wait"
    /\ inflight = 0
    /\ shutdownLog' = ReturnPending(shutdownLog)
    /\ hstack' = SetTop("h_exit")
    /\ UNCHANGED << runtime, interval, pc, sigVars, dbVars, schedVars, handlerEnds,
                    jobVars, served, exitCode >>

\* mutant: the handler returns to the interrupted frame instead of raising
HandlerSysExit_Returns ==
    /\ Alive /\ hstack # << >> /\ hstack[Len(hstack)].pc = "h_exit"
    /\ hstack' = SubSeq(hstack, 1, Len(hstack) - 1)
    /\ handlerEnds' = Append(handlerEnds, "returned")
    /\ UNCHANGED << runtime, interval, pc, sigVars, dbVars, schedVars, shutdownLog,
                    jobVars, served, exitCode >>

\* signal_handler: sys.exit(0)
HandlerSysExit ==
    /\ Alive /\ hstack # << >> /\ Top.pc = "h_exit"
    /\ Raise("SystemExit", shutdownLog)
    /\ UNCHANGED << runtime, interval, sigVars, dbVars, schedVars, jobVars, served >>

\* ------------------------------------------------------------------ jobs

\* the interval elapses
Tick ==
    /\ Alive /\ startCalls > 0 /\ ~due
    /\ due' = TRUE
    /\ UNCHANGED << runtime, interval, pc, hstack, sigVars, dbVars, schedVars,
                    shutdownLog, handlerEnds, inflight, fired, skipped,
                    failures, served, exitCode >>

\* mutant: the due job is submitted whether or not it is still running
ProcessJobs_Overlap ==
    /\ LoopRuns /\ CanFire /\ due /\ jobs # {}
    /\ fired < MaxFirings
    /\ fired' = fired + 1
    /\ inflight' = inflight + 1
    /\ due' = FALSE
    /\ UNCHANGED << runtime, interval, pc, hstack, sigVars, dbVars, schedVars,
                    shutdownLog, handlerEnds, skipped, failures, served,
                    exitCode >>

\* the main loop submits the due job, or skips it (max_instances = 1)
ProcessJobs ==
    /\ LoopRuns /\ CanFire /\ due /\ jobs # {}
    /\ IF inflight = 0
       THEN /\ fired < MaxFirings
            /\ fired' = fired + 1
            /\ inflight' = 1
            /\ UNCHANGED skipped
       ELSE /\ skipped < MaxSkips
            /\ skipped' = skipped + 1
            /\ UNCHANGED << fired, inflight >>
    /\ due' = FALSE
    /\ UNCHANGED << runtime, interval, pc, hstack, sigVars, dbVars, schedVars,
                    shutdownLog, handlerEnds, failures, served, exitCode >>

\* mutant: an exception of the job body takes the scheduler down
JobFinish_Crash ==
    /\ Alive /\ inflight > 0
    /\ \E o \in JobOutcomes :
        /\ failures' = IF o = "error" THEN failures + 1 ELSE failures
        /\ schedState' = IF o = "error" THEN "STOPPED" ELSE schedState
    /\ inflight' = inflight - 1
    /\ UNCHANGED << runtime, interval, pc, hstack, sigVars, dbVars, jobs,
                    startCalls, shutdownLog, handlerEnds, due, fired, skipped,
                    served, exitCode >>

\* a job body ends on its worker thread, normally or by raising
JobFinish ==
    /\ Alive /\ inflight > 0
    /\ \E o \in JobOutcomes :
        failures' = IF o = "error" THEN failures + 1 ELSE failures
    /\ inflight' = inflight - 1
    /\ UNCHANGED << runtime, interval, pc, hstack, sigVars, dbVars, schedVars,
                    shutdownLog, handlerEnds, due, fired, skipped, served,
                    exitCode >>

\* ---------------------------------------------------- service: lifespan

\* mutant: the hook goes on to start the scheduler after init_db failed
LifespanInitDb_Swallow ==
    /\ runtime = "service" /\ pc = "l_init_db"
    /\ \E o \in InitDbOutcomes :
        /\ initCalls' = initCalls + 1
        /\ dbInit' = o
    /\ pc' = "l_start"
    /\ UNCHANGED << runtime, interval, hstack, sigVars, schedVars, shutdownLog,
                    handlerEnds, jobVars, served, exitCode >>

\* init_db(**config.db)
LifespanInitDb ==
    /\ runtime = "service" /\ pc = "l_init_db"
    /\ \E o \in InitDbOutcomes :
        /\ initCalls' = initCalls + 1
        /\ dbInit' = o
        /\ IF o = "ok"
           THEN pc' = "l_start" /\ exitCode' = exitCode
           ELSE pc' = "done" /\ exitCode' = 1
    /\ UNCHANGED << runtime, interval, hstack, sigVars, schedVars, shutdownLog,
                    handlerEnds, jobVars, served >>

\* scheduler = start_scheduler()
LifespanStartScheduler ==
    /\ runtime = "service" /\ pc = "l_start"
    /\ \E o \in StartOutcomes :
        IF o = "ok"
        THEN /\ jobs' = jobs \cup {[id |-> "periodic", seconds |-> 60]}
             /\ schedState' = "RUNNING"
             /\ startCalls' = startCalls + 1
             /\ pc' = "l_yield"
             /\ exitCode' = exitCode
        ELSE /\ pc' = "done"
             /\ exitCode' = 1
             /\ UNCHANGED schedVars
    /\ UNCHANGED << runtime, interval, hstack, sigVars, dbVars, shutdownLog,
                    handlerEnds, jobVars, served >>

\* mutant: the hook yields to the server before the scheduler is started
LifespanYield_BeforeStart ==
    /\ runtime = "service" /\ pc \in {"l_start", "l_yield"}
    /\ pc' = "serving"
    /\ served' = TRUE
    /\ UNCHANGED << runtime, interval, hstack, sigVars, dbVars, schedVars, shutdownLog,
                    handlerEnds, jobVars, exitCode >>

\* logger.info("API server start"); yield
LifespanYield ==
    /\ runtime = "service" /\ pc = "l_yield"
    /\ pc' = "serving"
    /\ served' = TRUE
    /\ UNCHANGED << runtime, interval, hstack, sigVars, dbVars, schedVars, shutdownLog,
                    handlerEnds, jobVars, exitCode >>

\* the server shuts down: the generator is resumed after the yield
ServerShutdown ==
    /\ runtime = "service" /\ pc = "serving"
    /\ pc' = "l_teardown"
    /\ UNCHANGED << runtime, interval, hstack, sigVars, dbVars, schedVars, shutdownLog,
                    handlerEnds, jobVars, served, exitCode >>

\* an exception is thrown into the generator at the yield: there is no
\* try/finally around it, the statements after the yield do not run
ThrowAtYield ==
    /\ runtime = "service" /\ pc = "serving"
    /\ pc' = "done"
    /\ exitCode' = 1
    /\ UNCHANGED << runtime, interval, hstack, sigVars, dbVars, schedVars, shutdownLog,
                    handlerEnds, jobVars, served >>

\* logger.info("Cleaning up and shutdown..."); scheduler.shutdown()
LifespanShutdown ==
    /\ runtime = "service" /\ pc = "l_teardown"
    /\ IF ShutdownRaises
       THEN /\ shutdownLog' =
                   Append(shutdownLog, ShutdownRecord("main", "raised"))
            /\ pc' = "done"
            /\ exitCode' = 1
            /\ UNCHANGED schedState
       ELSE /\ schedState' = StateAfterShutdown
            /\ shutdownLog' =
                   Append(shutdownLog, ShutdownRecord("main", "pending"))
            /\ pc' = "l_wait"
            /\ UNCHANGED exitCode
    /\ UNCHANGED << runtime, interval, hstack, sigVars, dbVars, jobs, startCalls,
                    handlerEnds, jobVars, served >>

\* scheduler.shutdown() returns once no job is running; the hook ends
LifespanShutdownReturn ==
    /\ runtime = "service" /\ pc = "l_wait"
    /\ inflight = 0
    /\ shutdownLog' = ReturnPending(shutdownLog)
    /\ pc' = "done"
    /\ exitCode' = 0
    /\ UNCHANGED << runtime, interval, hstack, sigVars, dbVars, schedVars, handlerEnds,
                    jobVars, served >>

\* ------------------------------------------------------------------ spec

Next ==
    \/ MainInitDb
    \/ MainAddJob
    \/ MainInstallSigint
    \/ MainInstallSigterm
    \/ MainStart
    \/ StartRaises
    \/ MainExceptPass
    \/ \E s \in Signals : Deliver(s)
    \/ HandlerShutdown
    \/ HandlerShutdownReturn
    \/ HandlerSysExit
    \/ Tick
    \/ ProcessJobs
    \/ JobFinish
    \/ LifespanInitDb
    \/ LifespanStartScheduler
    \/ LifespanYield
    \/ ServerShutdown
    \/ ThrowAtYield
    \/ LifespanShutdown
    \/ LifespanShutdownReturn

Spec == Init /\ [][Next]_vars

\* time passes, and a main loop that may run does run
FairSpec == Spec /\ WF_vars(Tick) /\ WF_vars(ProcessJobs)

\* ---------------------------------------------------------------- claims

\* shutdown() calls that passed the state check (the stop was carried out)
Accepted == {i \in DOMAIN shutdownLog : shutdownLog[i].result # "raised"}
Returned == {i \in DOMAIN shutdownLog : shutdownLog[i].result = "returned"}

\* C1: when init_db fails, no job is ever registered, the scheduler's start
\* is never entered, no job fires, the standalone process ends with a
\* non-zero status and the service hook fails without yielding.
C1_InitFailureStartsNothing ==
    dbInit = "failed" =>
        /\ jobs = {}
        /\ startCalls = 0
        /\ schedState = "STOPPED"
        /\ fired = 0
        /\ ~served
        /\ pc = "done"
        /\ exitCode > 0

C1_Witness ==
    /\ runtime = "standalone" /\ dbInit = "failed" /\ pc = "done"
    /\ exitCode = 1

\* C2: scheduler.shutdown() is invoked at most once in an execution of the
\* standalone runtime, however SIGINT and SIGTERM are delivered.
C2_ShutdownInvokedOnce ==
    runtime = "standalone" => Len(shutdownLog) <= 1

\* C3: a process that started a scheduler does not exit before a shutdown
\* of that scheduler was attempted.
C3_ShutdownAttemptedBeforeExit ==
    (pc = "done" /\ startCalls > 0) => Len(shutdownLog) > 0

\* C4: a standalone process that received a signal while both handlers
\* were installed ends with the scheduler stopped and exit status 0.
C4_SignalExitsZero ==
    (runtime = "standalone" /\ sigArmed /\ pc = "done") =>
        /\ exitCode = 0
        /\ Returned # {}

\* C5: init_db is called at most once, and whatever registers, starts or
\* fires a job happens after the one call that succeeded.
C5_InitOnceBeforeJobs ==
    /\ initCalls <= 1
    /\ (jobs # {} \/ startCalls > 0 \/ fired > 0) =>
           (initCalls = 1 /\ dbInit = "ok")

C5_Witness ==
    /\ runtime = "standalone" /\ fired > 0 /\ initCalls = 1

\* C6: once scheduler.shutdown() has been invoked, the number of job
\* executions started never increases again, even when a firing is due.
C6_NoFiringAfterStop ==
    [][Len(shutdownLog) > 0 => fired' = fired]_vars

C6_Witness ==
    /\ Returned # {} /\ due /\ fired > 0 /\ Alive

\* C7: a shutdown() call made with both handlers installed on a scheduler
\* that was never started does not raise (and leaves it not running).
C7_StopBeforeStartNoError ==
    \A i \in DOMAIN shutdownLog :
        (shutdownLog[i].armed /\ ~shutdownLog[i].started)
            => (shutdownLog[i].result # "raised" /\ schedState = "STOPPED")

\* C8: a shutdown() call on a scheduler that was started and is stopped
\* already does not raise.
C8_SecondStopNoError ==
    \A i \in DOMAIN shutdownLog :
        (shutdownLog[i].started /\ shutdownLog[i].prior = "STOPPED")
            => shutdownLog[i].result # "raised"

Lifecycle ==
    IF Returned # {} THEN "STOPPED"
    ELSE IF Accepted # {} THEN "STOPPING"
    ELSE IF schedState = "RUNNING" THEN "RUNNING"
    ELSE IF dbInit = "ok" THEN "READY"
    ELSE "INIT"

LifecycleNext(a, b) ==
    \/ a = "INIT" /\ b = "READY"
    \/ a = "READY" /\ b = "RUNNING"
    \/ a = "RUNNING" /\ b = "STOPPING"
    \/ a = "STOPPING" /\ b = "STOPPED"

\* C10: the lifecycle state only moves one step forward along
\* INIT -> READY -> RUNNING -> STOPPING -> STOPPED; RUNNING and later states
\* are held only with the infrastructure initialized and the scheduler
\* started once, and the scheduler is running exactly in state RUNNING.
C10_LifecycleForward ==
    /\ [](Lifecycle \in {"RUNNING", "STOPPING", "STOPPED"} =>
              (dbInit = "ok" /\ startCalls = 1))
    /\ []((schedState = "RUNNING") = (Lifecycle = "RUNNING"))
    /\ [][Lifecycle' = Lifecycle \/ LifecycleNext(Lifecycle, Lifecycle')]_vars

C10_Witness ==
    /\ runtime = "standalone" /\ Lifecycle = "STOPPED" /\ delivered = 2
    /\ pc = "done"

\* the server accepts requests: the lifespan is suspended at its yield
Serving == runtime = "service" /\ pc = "serving"

\* C11: in the service runtime the hook yields only after init_db and the
\* scheduler start have succeeded, the scheduler is running and not asked
\* to stop during the whole serving phase, and scheduler.shutdown() is
\* called only after the serving phase has ended, before the process exits.
C11_ServingInsideSchedulerRun ==
    runtime = "service" =>
        /\ served => (dbInit = "ok" /\ startCalls = 1)
        /\ Serving => (schedState = "RUNNING" /\ shutdownLog = << >>)
        /\ shutdownLog # << >> => (served /\ pc \in {"l_wait", "done"})
        /\ pc = "l_wait" => exitCode = -1

C11_Witness ==
    /\ runtime = "service" /\ served /\ pc = "done" /\ Returned # {}
    /\ fired > 0

\* C12: at most one scheduler is ever started in a process, and a started
\* scheduler is stopped before the phase that created it (the main module,
\* the lifespan context) ends.
C12_OneSchedulerInsidePhase ==
    /\ startCalls <= 1
    /\ schedState = "RUNNING" => Alive

\* C13: in the standalone runtime a configured interval <= 0 is rejected
\* at registration: no job is registered and start() is never attempted.
C13_NonPositiveIntervalRejected ==
    (runtime = "standalone" /\ interval <= 0) =>
        (jobs = {} /\ startCalls = 0)

\* C14: a job body that raises changes nothing but the job's own execution:
\* the scheduler keeps its state and its jobs, the main control flow is not
\* disturbed, and as long as the scheduler runs undisturbed by a shutdown
\* trigger the next firing of the job begins.
C14_JobFailureContained ==
    /\ [][failures' > failures =>
              /\ schedState' = schedState /\ jobs' = jobs
              /\ pc' = pc /\ hstack' = hstack /\ exitCode' = exitCode
              /\ shutdownLog' = shutdownLog]_vars
    /\ (failures > 0 /\ inflight = 0 /\ fired < MaxFirings)
           ~> \/ inflight = 1
              \/ ~(Alive /\ schedState = "RUNNING")
              \/ hstack # << >>

C14_Witness ==
    /\ runtime = "standalone" /\ pc = "blocked" /\ schedState = "RUNNING"
    /\ failures = 1 /\ fired = 2 /\ inflight = 1

\* C15: at most one execution of the job is in flight, and a firing that
\* comes due while the previous one is still running is skipped: it starts
\* no execution.
C15_NoOverlapSkip ==
    /\ [](inflight <= 1)
    /\ [][(due /\ ~due' /\ inflight = 1) =>
              /\ fired' = fired /\ inflight' = inflight
              /\ skipped' = skipped + 1]_vars

C15_Witness ==
    /\ runtime = "standalone" /\ skipped > 0 /\ inflight = 1 /\ fired = 1

\* C16: scheduler.shutdown() returns only when no started execution is
\* still running, no step of a shutdown or of the exit ends an execution,
\* and the standalone process exits with status 0 only after a shutdown()
\* call has returned and with no job body executing.
C16_StopWaitsForInflight ==
    /\ [][Returned' # Returned => (inflight = 0 /\ inflight' = 0)]_vars
    /\ [][inflight' < inflight => (shutdownLog' = shutdownLog /\ pc' = pc)]_vars
    /\ []((runtime = "standalone" /\ exitCode = 0) =>
              (Returned # {} /\ inflight = 0 /\ schedState = "STOPPED"))

C16_Witness ==
    /\ runtime = "standalone" /\ hstack # << >>
    /\ hstack[Len(hstack)].pc = "h_wait" /\ inflight = 1
    /\ \E i \in DOMAIN shutdownLog : shutdownLog[i].result = "pending"

\* C17: in the service runtime scheduler.shutdown() is only called on a
\* scheduler that start_scheduler returned running, after the yield; when
\* init_db or start_scheduler raises, the hook never yields and never
\* calls shutdown().
C17_TeardownOnlyAfterStartup ==
    runtime = "service" =>
        /\ \A i \in DOMAIN shutdownLog :
               /\ shutdownLog[i].started
               /\ shutdownLog[i].prior = "RUNNING"
               /\ shutdownLog[i].ctx = "main"
        /\ shutdownLog # << >> => served
        /\ (dbInit = "failed" \/ (pc = "done" /\ startCalls = 0)) =>
               (~served /\ shutdownLog = << >>)

C17_Witness ==
    /\ runtime = "service" /\ dbInit = "ok" /\ startCalls = 0
    /\ pc = "done" /\ exitCode = 1

\* C18: in the standalone runtime, whenever the scheduler is running both
\* signals have signal_handler installed and the job is registered, so
\* every signal delivered to a running scheduler runs the handler.
C18_RunningImpliesHandlersAndJob ==
    (runtime = "standalone" /\ schedState = "RUNNING") =>
        /\ handlers = Signals
        /\ \E j \in jobs : j.id = "run_twitter_agents"
        /\ exitCode # 143

C18_Witness ==
    /\ runtime = "standalone" /\ schedState = "RUNNING" /\ pc = "blocked"
    /\ hstack # << >> /\ hstack[Len(hstack)].sig = "SIGTERM"

TypeOK ==
    /\ runtime \in Runtimes
    /\ interval \in Intervals
    /\ \A j \in jobs : j.seconds > 0
    /\ handlers \subseteq Signals
    /\ delivered \in 0..MaxDeliveries
    /\ dbInit \in {"none"} \cup InitDbOutcomes
    /\ schedState \in {"STOPPED", "RUNNING"}
    /\ inflight \in 0..1
    /\ fired \in 0..MaxFirings
    /\ skipped \in 0..MaxSkips
    /\ failures \in 0..fired
    /\ Len(hstack) <= delivered
    /\ exitCode \in {-1, 0, 1, 143}
    /\ (exitCode = -1) = Alive
=============================================================================
